---------------------------- MODULE Spec2Model ----------------------------
(***************************************************************************)
(* EchoVid backend (src/server.js): an Express API over a SQL Server       *)
(* database (mssql) and an Azure blob container.  The file holds three     *)
(* variants of the same server; `variant` says which one is running.       *)
(*                                                                         *)
(* Every async handler is cut at its awaits: one action per awaited       *)
(* operation (connection, query, blob write), so that requests interleave  *)
(* exactly where Node lets them interleave.  Strings are sequences of      *)
(* one-character strings.  Time is the value of Date.now(), milliseconds.  *)
(***************************************************************************)
EXTENDS Integers, Sequences, FiniteSets, TLC

VARIABLES
    variant,      \* 1, 2 or 3: which of the three servers of server.js runs
    columnCI,     \* whether Users.Email's own collation ignores case (used by variant 2 only)
    now,          \* Date.now() in milliseconds
    pool,         \* the module-level `let pool`: NoPool (undefined) or a pool handle
    connectCalls, \* how many times sql.connect has been called
    established,  \* how many of these calls resolved with a pool
    Users,        \* table Users, in insertion order; UserID is the IDENTITY column
    Videos,       \* table Videos
    Ratings,      \* table Ratings
    Comments,     \* table Comments
    blobs,        \* the blob container: the bytes of each blob that exists, by name
    reqs,         \* the requests in flight: slot -> request record, or Idle
    held          \* tokens the clients hold (from 200 login responses)

vars == <<variant, columnCI, now, pool, connectCalls, established, Users, Videos, Ratings, Comments, blobs, reqs, held>>

-----------------------------------------------------------------------------
(* Bounds *)

MaxReqs == 2        \* requests in flight at once
MaxUsers == 3       \* rows of Users (one is provisioned)
MaxVideos == 2      \* rows of Videos
MaxRatings == 2     \* rows of Ratings
MaxComments == 2    \* rows of Comments
MaxHeld == 2        \* tokens the clients keep
MaxConnects == 2    \* calls of sql.connect

Slots == 1..MaxReqs

-----------------------------------------------------------------------------
(* Strings *)

\* String.prototype.toLowerCase, on the letters the model uses
LowerChar(c) ==
    CASE c = "A" -> "a"
      [] c = "C" -> "c"
      [] c = "P" -> "p"
      [] OTHER -> c

toLowerCase(s) == [i \in 1..Len(s) |-> LowerChar(s[i])]

RECURSIVE trimStart(_)
trimStart(s) ==
    IF s # <<>> /\ Head(s) = " " THEN trimStart(Tail(s)) ELSE s

RECURSIVE trimEnd(_)
trimEnd(s) ==
    IF s # <<>> /\ s[Len(s)] = " " THEN trimEnd(SubSeq(s, 1, Len(s) - 1)) ELSE s

\* String.prototype.trim
trim(s) == trimEnd(trimStart(s))

\* Email COLLATE Latin1_General_CI_AS = @Email : equality ignoring case
EqCI(a, b) == toLowerCase(a) = toLowerCase(b)

\* Email = @Email under the column's own collation (variant 2)
EqColumn(a, b) == IF columnCI THEN EqCI(a, b) ELSE a = b

\* bcrypt.hash(password, 10): a representation that is not the password
bcryptHash(password) == <<"$2a$10$">> \o password

\* bcrypt.compare(password, hash)
bcryptCompare(password, hash) == hash = bcryptHash(password)

\* what signup stores in PasswordHash
StoredPassword(password) ==
    IF variant = 2 THEN bcryptHash(password) ELSE password

-----------------------------------------------------------------------------
(* Input domains *)

Emails == { <<"a">>, <<"A">> }              \* what signup is given
LoginEmails == Emails \cup { <<"c">> }      \* what login is given
Passwords == { <<"p">>, <<" ", "p">> }

-----------------------------------------------------------------------------
(* Constants of the program *)

JWT_SECRET == "supersecretkey"
CONTAINER_NAME == "videos"
NoPool == 0

Idle == [kind |-> "idle"]
NoUser == [id |-> 0, role |-> ""]

\* expiresIn: "1h", in seconds
expiresIn == 3600

\* the rows provisioned in the database before the server starts: the API
\* creates Consumers only, so a Creator exists only by provisioning
SeedUsers ==
    << [UserID |-> 1, Email |-> <<"c">>, PasswordHash |-> StoredPassword(<<"p">>), Role |-> "Creator"] >>

-----------------------------------------------------------------------------
(* Requests *)

Done(r) == reqs[r] # Idle /\ reqs[r].pc = "done"
At(r, kind, pc) == reqs[r] # Idle /\ reqs[r].kind = kind /\ reqs[r].pc = pc

InFlight(kind) == Cardinality({r \in Slots : reqs[r] # Idle /\ reqs[r].kind = kind /\ reqs[r].pc # "done"})

\* res.status(code).json(body) / res.json(body)
Respond(r, code, body) ==
    reqs' = [reqs EXCEPT ![r] = [@ EXCEPT !.pc = "done", !.status = code, !.resp = body]]

\* the catch block of every handler: res.status(500).json({error: err.message})
Catch(r) == Respond(r, 500, [error |-> "err.message"])

Goto(r, pc) == reqs' = [reqs EXCEPT ![r] = [@ EXCEPT !.pc = pc]]

\* the step a handler takes once `await getPool()` has returned
AfterPool(req) ==
    CASE req.kind = "signup" -> IF variant = 2 THEN "insert" ELSE "select"
      [] req.kind = "login" -> "select"
      [] req.kind = "upload" -> "insert"
      [] req.kind = "rate" -> "insert"
      [] req.kind = "comment" -> "insert"
      [] req.kind = "getRatings" -> "query"
      [] OTHER -> "done"

-----------------------------------------------------------------------------
(* getPool *)

\* getPool up to its await: `if (!pool)` and the call of sql.connect are one
\* synchronous stretch
getPool(r) ==
    /\ reqs[r] # Idle /\ reqs[r].pc = "getPool"
    /\ \/ /\ pool # NoPool
          /\ Goto(r, AfterPool(reqs[r]))
          /\ UNCHANGED connectCalls
       \/ /\ pool = NoPool
          /\ connectCalls < MaxConnects
          /\ connectCalls' = connectCalls + 1
          /\ reqs' = [reqs EXCEPT ![r] = [@ EXCEPT !.pc = "connect", !.conn = connectCalls + 1]]
    /\ UNCHANGED <<variant, columnCI, now, pool, established, Users, Videos, Ratings, Comments, blobs, held>>

\* sql.connect settles: `pool = <the handle>` and getPool returns, or it
\* rejects and the handler's catch answers 500
connectSettles(r) ==
    /\ reqs[r] # Idle /\ reqs[r].pc = "connect"
    /\ \/ /\ pool' = reqs[r].conn
          /\ established' = established + 1
          /\ Goto(r, AfterPool(reqs[r]))
       \/ /\ Catch(r)
          /\ UNCHANGED <<pool, established>>
    /\ UNCHANGED <<variant, columnCI, now, connectCalls, Users, Videos, Ratings, Comments, blobs, held>>

-----------------------------------------------------------------------------
(* POST /signup *)

\* a request whose handler has been called: `at` is Date.now() on arrival,
\* `calls` counts the calls of the handler, `user` is req.user
NewRequest(kind, body) ==
    [kind |-> kind, pc |-> "getPool", at |-> now, header |-> <<>>, body |-> body,
     user |-> NoUser, calls |-> 1, conn |-> 0, status |-> 0, resp |-> [error |-> ""]]

PostSignup(r) ==
    /\ reqs[r] = Idle
    /\ Len(Users) + InFlight("signup") < MaxUsers
    /\ \E email \in Emails, password \in Passwords :
          reqs' = [reqs EXCEPT ![r] = NewRequest("signup", [email |-> email, password |-> password])]
    /\ UNCHANGED <<variant, columnCI, now, pool, connectCalls, established, Users, Videos, Ratings, Comments, blobs, held>>

\* SELECT * FROM Users WHERE Email COLLATE Latin1_General_CI_AS = @Email
SignupRecordset(email) ==
    { i \in 1..Len(Users) : EqCI(Users[i].Email, toLowerCase(email)) }

\* variants 1 and 3: the SELECT and the test of its recordset
signupSelect(r) ==
    /\ At(r, "signup", "select")
    /\ \/ IF SignupRecordset(reqs[r].body.email) # {}
             THEN Respond(r, 400, [error |-> "Email already registered"])
             ELSE Goto(r, "insert")
       \/ Catch(r)
    /\ UNCHANGED <<variant, columnCI, now, pool, connectCalls, established, Users, Videos, Ratings, Comments, blobs, held>>

\* the INSERT taking the role from the request body, which holds none
SignupRowRoleFromBody(body) ==
    [UserID |-> Len(Users) + 1,
     Email |-> IF variant = 2 THEN body.email ELSE toLowerCase(body.email),
     PasswordHash |-> StoredPassword(body.password),
     Role |-> IF "role" \in DOMAIN body THEN body.role ELSE "Creator"]

\* the row of INSERT INTO Users
SignupRow(body) ==
    [UserID |-> Len(Users) + 1,
     Email |-> IF variant = 2 THEN body.email ELSE toLowerCase(body.email),
     PasswordHash |-> StoredPassword(body.password),
     Role |-> "Consumer"]

signupInsert(r) ==
    /\ At(r, "signup", "insert")
    /\ \/ /\ Users' = Append(Users, SignupRow(reqs[r].body))
          /\ Respond(r, 200, [error |-> ""])
       \/ /\ Catch(r)
          /\ UNCHANGED Users
    /\ UNCHANGED <<variant, columnCI, now, pool, connectCalls, established, Videos, Ratings, Comments, blobs, held>>

-----------------------------------------------------------------------------
(* Tokens *)

\* jwt.sign({id, role}, secret, {expiresIn: "1h"}) at time t: iat is the clock
\* in whole seconds, exp = iat + expiresIn.  `t` is not part of the token: it
\* records the instant of issue.
jwtSign(id, role, secret, t) ==
    [id |-> id, role |-> role, iat |-> t \div 1000, exp |-> (t \div 1000) + expiresIn,
     key |-> secret, t |-> t]

\* jwt.verify comparing the clock with exp by > where the library has >=
jwtVerifyLate(token, secret, t) ==
    /\ "key" \in DOMAIN token
    /\ token.key = secret
    /\ ~((t \div 1000) > token.exp)

\* jwt.verify(token, secret) at time t does not throw: the token is a JWT
\* signed with `secret` and the clock in whole seconds has not reached exp
jwtVerify(token, secret, t) ==
    /\ "key" \in DOMAIN token
    /\ token.key = secret
    /\ ~((t \div 1000) >= token.exp)

\* a token that was not signed with JWT_SECRET
Forged ==
    [id |-> 1, role |-> "Creator", iat |-> 0, exp |-> 1000000, key |-> "guess", t |-> 0]

Bearer == [text |-> "Bearer"]
Undefined == [text |-> "undefined"]

\* header.split(" ")[1]
SecondWord(header) == IF Len(header) >= 2 THEN header[2] ELSE Undefined

\* the Authorization headers a client may send: none, "Bearer", "Bearer <token>"
Headers == { <<>>, <<Bearer>> } \cup { <<Bearer, tk>> : tk \in held \cup {Forged} }

\* the headers of the clients that hold a Creator's token
CreatorHeaders == { <<Bearer, tk>> : tk \in { h \in held : h.role = "Creator" } }

-----------------------------------------------------------------------------
(* auth(requiredRole): the middleware; requiredRole "" is auth() *)

\* the middleware without its test of requiredRole
authAnyRole(requiredRole, header, t) ==
    IF header = <<>>
    THEN [status |-> 401, next |-> FALSE, user |-> NoUser]
    ELSE LET token == SecondWord(header) IN
         IF ~jwtVerify(token, JWT_SECRET, t)
         THEN [status |-> 401, next |-> FALSE, user |-> NoUser]
         ELSE [status |-> 0, next |-> TRUE, user |-> [id |-> token.id, role |-> token.role]]

auth(requiredRole, header, t) ==
    IF header = <<>>
    THEN [status |-> 401, next |-> FALSE, user |-> NoUser]
    ELSE LET token == SecondWord(header) IN
         IF ~jwtVerify(token, JWT_SECRET, t)
         THEN [status |-> 401, next |-> FALSE, user |-> NoUser]
         ELSE IF requiredRole # "" /\ token.role # requiredRole
              THEN [status |-> 403, next |-> FALSE, user |-> NoUser]
              ELSE [status |-> 0, next |-> TRUE, user |-> [id |-> token.id, role |-> token.role]]

\* a request to a route behind auth(requiredRole): the middleware runs on
\* arrival and either answers or calls the handler, which starts at `pc`
GuardedRequest(kind, requiredRole, header, body, pc) ==
    LET a == auth(requiredRole, header, now) IN
    [kind |-> kind, pc |-> IF a.next THEN pc ELSE "done", at |-> now, header |-> header,
     body |-> body, user |-> a.user, calls |-> IF a.next THEN 1 ELSE 0, conn |-> 0,
     status |-> a.status,
     resp |-> [error |-> IF a.next THEN "" ELSE "auth"]]

-----------------------------------------------------------------------------
(* POST /login *)

PostLogin(r) ==
    /\ reqs[r] = Idle
    /\ \E email \in LoginEmails, password \in Passwords :
          reqs' = [reqs EXCEPT ![r] = NewRequest("login", [email |-> email, password |-> password])]
    /\ UNCHANGED <<variant, columnCI, now, pool, connectCalls, established, Users, Videos, Ratings, Comments, blobs, held>>

\* variants 1 and 3: SELECT * FROM Users WHERE Email COLLATE Latin1_General_CI_AS
\* = @Email AND PasswordHash = @PasswordHash, with the trimmed inputs;
\* variant 2: SELECT * FROM Users WHERE Email=@Email
LoginRecordset(body) ==
    IF variant = 2
    THEN { i \in 1..Len(Users) : EqColumn(Users[i].Email, body.email) }
    ELSE { i \in 1..Len(Users) :
             /\ EqCI(Users[i].Email, toLowerCase(trim(body.email)))
             /\ Users[i].PasswordHash = trim(body.password) }

\* the status of a failed login: 401 in variants 1 and 3, 400 in variant 2
LoginFailure == IF variant = 2 THEN 400 ELSE 401

\* the 200 response: jwt.sign({id: user.UserID, role: user.Role}, ...)
LoginResponse(user) ==
    [token |-> jwtSign(user.UserID, user.Role, JWT_SECRET, now), role |-> user.Role]

\* the SELECT, recordset[0] (any of the rows: the query has no ORDER BY), in
\* variant 2 bcrypt.compare, and the response
loginSelect(r) ==
    /\ At(r, "login", "select")
    /\ LET rs == LoginRecordset(reqs[r].body) IN
       \/ /\ rs = {}
          /\ Respond(r, LoginFailure, [error |-> "Invalid credentials"])
       \/ \E i \in rs :
             IF variant = 2 /\ ~bcryptCompare(reqs[r].body.password, Users[i].PasswordHash)
             THEN Respond(r, LoginFailure, [error |-> "Invalid password"])
             ELSE Respond(r, 200, LoginResponse(Users[i]))
       \/ Catch(r)
    /\ UNCHANGED <<variant, columnCI, now, pool, connectCalls, established, Users, Videos, Ratings, Comments, blobs, held>>

-----------------------------------------------------------------------------
(* POST /upload *)

FileNames == { "a.mp4", "b.mp4" }
FileContents == { "eA==", "eQ==" }

\* Buffer.from(fileContent, "base64"): the bytes
Base64Decode(s) ==
    CASE s = "eA==" -> <<120>>
      [] s = "eQ==" -> <<121>>
      [] OTHER -> <<>>

\* blockBlobClient.url of getBlockBlobClient(fileName) in the container
BlobUrl(fileName) == <<"https://account.blob.core.windows.net", CONTAINER_NAME, fileName>>

\* the blob a locator refers to
BlobAt(url) == url[3]

BlobExists(url) == Len(url) = 3 /\ url[2] = CONTAINER_NAME /\ BlobAt(url) \in DOMAIN blobs

\* blockBlobClient.uploadData(buffer): creates the blob or replaces its bytes
UploadData(fileName, buffer) ==
    [n \in DOMAIN blobs \cup {fileName} |-> IF n = fileName THEN buffer ELSE blobs[n]]

\* a request to POST /upload with header and body drawn from the given sets
PostUploadWith(r, headers, fileNames, fileContents) ==
    /\ reqs[r] = Idle
    /\ Len(Videos) + InFlight("upload") < MaxVideos
    /\ \E header \in headers, fileName \in fileNames, fileContent \in fileContents :
          reqs' = [reqs EXCEPT ![r] =
                      GuardedRequest("upload", "Creator", header,
                                     [fileName |-> fileName, fileContent |-> fileContent, url |-> <<>>],
                                     "blobWrite")]
    /\ UNCHANGED <<variant, columnCI, now, pool, connectCalls, established, Users, Videos, Ratings, Comments, blobs, held>>

PostUpload(r) == PostUploadWith(r, Headers, FileNames, FileContents)

\* the blob write with its rejection swallowed: the handler goes on to the INSERT
uploadBlobWriteSwallowed(r) ==
    /\ At(r, "upload", "blobWrite")
    /\ \/ /\ blobs' = UploadData(reqs[r].body.fileName, Base64Decode(reqs[r].body.fileContent))
          /\ reqs' = [reqs EXCEPT ![r] = [@ EXCEPT !.pc = "getPool",
                                                   !.body.url = BlobUrl(reqs[r].body.fileName)]]
       \/ /\ reqs' = [reqs EXCEPT ![r] = [@ EXCEPT !.pc = "getPool",
                                                   !.body.url = BlobUrl(reqs[r].body.fileName)]]
          /\ UNCHANGED blobs
    /\ UNCHANGED <<variant, columnCI, now, pool, connectCalls, established, Users, Videos, Ratings, Comments, held>>

\* await blockBlobClient.uploadData(buffer); const blobUrl = blockBlobClient.url
\* (body.url is the handler's local blobUrl), or the write rejects
uploadBlobWrite(r) ==
    /\ At(r, "upload", "blobWrite")
    /\ \/ /\ blobs' = UploadData(reqs[r].body.fileName, Base64Decode(reqs[r].body.fileContent))
          /\ reqs' = [reqs EXCEPT ![r] = [@ EXCEPT !.pc = "getPool",
                                                   !.body.url = BlobUrl(reqs[r].body.fileName)]]
       \/ /\ Catch(r)
          /\ UNCHANGED blobs
    /\ UNCHANGED <<variant, columnCI, now, pool, connectCalls, established, Users, Videos, Ratings, Comments, held>>

\* the INSERT storing the file name where the locator belongs
VideoRowFileName(req) ==
    [VideoID |-> Len(Videos) + 1, BlobURL |-> <<req.body.fileName>>, CreatorID |-> req.user.id]

\* the row of INSERT INTO Videos
VideoRow(req) ==
    [VideoID |-> Len(Videos) + 1, BlobURL |-> req.body.url, CreatorID |-> req.user.id]

\* the 200 response of /upload
UploadResponse(req) == [message |-> "Video uploaded successfully", url |-> req.body.url]

uploadInsert(r) ==
    /\ At(r, "upload", "insert")
    /\ \/ /\ Videos' = Append(Videos, VideoRow(reqs[r]))
          /\ Respond(r, 200, UploadResponse(reqs[r]))
       \/ /\ Catch(r)
          /\ UNCHANGED Videos
    /\ UNCHANGED <<variant, columnCI, now, pool, connectCalls, established, Users, Ratings, Comments, blobs, held>>

-----------------------------------------------------------------------------
(* POST /rate and GET /getRatings/:videoId *)

VideoIds == { 1, 2 }
RatingValues == { 3, 4, 5 }

\* a request to POST /rate with header and body drawn from the given sets
PostRateWith(r, headers, videoIds, ratings) ==
    /\ reqs[r] = Idle
    /\ Len(Ratings) + InFlight("rate") < MaxRatings
    /\ \E header \in headers, videoId \in videoIds, rating \in ratings :
          reqs' = [reqs EXCEPT ![r] =
                      GuardedRequest("rate", "", header,
                                     [videoId |-> videoId, rating |-> rating], "getPool")]
    /\ UNCHANGED <<variant, columnCI, now, pool, connectCalls, established, Users, Videos, Ratings, Comments, blobs, held>>

PostRate(r) == PostRateWith(r, Headers, VideoIds, RatingValues)

\* the row of INSERT INTO Ratings
RatingRow(req) ==
    [VideoID |-> req.body.videoId, UserID |-> req.user.id, Rating |-> req.body.rating]

rateInsert(r) ==
    /\ At(r, "rate", "insert")
    /\ \/ /\ Ratings' = Append(Ratings, RatingRow(reqs[r]))
          /\ Respond(r, 200, [message |-> "Rating submitted"])
       \/ /\ Catch(r)
          /\ UNCHANGED Ratings
    /\ UNCHANGED <<variant, columnCI, now, pool, connectCalls, established, Users, Videos, Comments, blobs, held>>

\* the Rating values of the rows WHERE VideoID=@VideoID, in table order
RECURSIVE RatingsOf(_, _)
RatingsOf(rows, videoId) ==
    IF rows = <<>> THEN <<>>
    ELSE (IF Head(rows).VideoID = videoId THEN <<Head(rows).Rating>> ELSE <<>>)
         \o RatingsOf(Tail(rows), videoId)

RECURSIVE Sum(_)
Sum(xs) == IF xs = <<>> THEN 0 ELSE Head(xs) + Sum(Tail(xs))

\* integer division truncating toward zero
TruncDiv(a, b) == IF a >= 0 THEN a \div b ELSE -((-a) \div b)

\* AVG(Rating) over an INT column: NULL (<<>>) over no rows, else the integer
\* quotient of the sum by the count
SqlAvg(xs) == IF xs = <<>> THEN <<>> ELSE <<TruncDiv(Sum(xs), Len(xs))>>

\* SELECT AVG(Rating) AS AvgRating, COUNT(*) AS TotalRatings FROM Ratings WHERE VideoID=@VideoID
RatingsRecord(videoId) ==
    LET xs == RatingsOf(Ratings, videoId) IN
    [AvgRating |-> SqlAvg(xs), TotalRatings |-> Len(xs)]

\* the route exists in variant 1 only; elsewhere Express answers 404
GetRatings(r) ==
    /\ reqs[r] = Idle
    /\ \E videoId \in VideoIds :
          reqs' = [reqs EXCEPT ![r] =
                      IF variant = 1
                      THEN NewRequest("getRatings", [videoId |-> videoId])
                      ELSE [NewRequest("getRatings", [videoId |-> videoId])
                               EXCEPT !.pc = "done", !.calls = 0, !.status = 404]]
    /\ UNCHANGED <<variant, columnCI, now, pool, connectCalls, established, Users, Videos, Ratings, Comments, blobs, held>>

getRatingsQuery(r) ==
    /\ At(r, "getRatings", "query")
    /\ \/ Respond(r, 200, RatingsRecord(reqs[r].body.videoId))
       \/ Catch(r)
    /\ UNCHANGED <<variant, columnCI, now, pool, connectCalls, established, Users, Videos, Ratings, Comments, blobs, held>>

-----------------------------------------------------------------------------
(* POST /comment *)

CommentTexts == { "hi" }

\* the user ids a client may put in a body; no handler reads body.userId
BodyUserIds == { 1, 2 }

\* a request to POST /comment with header and body drawn from the given sets
PostCommentWith(r, headers, videoIds, comments, userIds) ==
    /\ reqs[r] = Idle
    /\ Len(Comments) + InFlight("comment") < MaxComments
    /\ \E header \in headers, videoId \in videoIds, comment \in comments, userId \in userIds :
          reqs' = [reqs EXCEPT ![r] =
                      GuardedRequest("comment", "", header,
                                     [videoId |-> videoId, comment |-> comment, userId |-> userId],
                                     "getPool")]
    /\ UNCHANGED <<variant, columnCI, now, pool, connectCalls, established, Users, Videos, Ratings, Comments, blobs, held>>

PostComment(r) == PostCommentWith(r, Headers, VideoIds, CommentTexts, BodyUserIds)

\* the INSERT taking the author from the request body
CommentRowFromBody(req) ==
    [VideoID |-> req.body.videoId, UserID |-> req.body.userId, CommentText |-> req.body.comment]

\* the row of INSERT INTO Comments
CommentRow(req) ==
    [VideoID |-> req.body.videoId, UserID |-> req.user.id, CommentText |-> req.body.comment]

commentInsert(r) ==
    /\ At(r, "comment", "insert")
    /\ \/ /\ Comments' = Append(Comments, CommentRow(reqs[r]))
          /\ Respond(r, 200, [message |-> "Comment added"])
       \/ /\ Catch(r)
          /\ UNCHANGED Comments
    /\ UNCHANGED <<variant, columnCI, now, pool, connectCalls, established, Users, Videos, Ratings, blobs, held>>

-----------------------------------------------------------------------------
(* Time passes *)

Instants == { 600, 1000 * expiresIn, 1000 * expiresIn + 600 }

Tick ==
    /\ \E t \in Instants : t > now /\ now' = t
    /\ UNCHANGED <<variant, columnCI, pool, connectCalls, established, Users, Videos, Ratings, Comments, blobs, reqs, held>>

-----------------------------------------------------------------------------
(* the client reads the response; the slot is free again *)

Close(r) ==
    /\ Done(r)
    /\ reqs' = [reqs EXCEPT ![r] = Idle]
    /\ held' = IF reqs[r].kind = "login" /\ reqs[r].status = 200 /\ Cardinality(held) < MaxHeld
               THEN held \cup {reqs[r].resp.token}
               ELSE held
    /\ UNCHANGED <<variant, columnCI, now, pool, connectCalls, established, Users, Videos, Ratings, Comments, blobs>>

-----------------------------------------------------------------------------

Init ==
    /\ variant \in {1, 2, 3}
    /\ columnCI \in (IF variant = 2 THEN BOOLEAN ELSE {TRUE})
    /\ now = 0
    /\ pool = NoPool
    /\ connectCalls = 0
    /\ established = 0
    /\ Users = SeedUsers
    /\ Videos = <<>>
    /\ Ratings = <<>>
    /\ Comments = <<>>
    /\ blobs = <<>>
    /\ reqs = [r \in Slots |-> Idle]
    /\ held = {}

NextSignup ==
    \E r \in Slots :
        \/ PostSignup(r)
        \/ getPool(r)
        \/ connectSettles(r)
        \/ signupSelect(r)
        \/ signupInsert(r)
        \/ Close(r)

SpecSignup == Init /\ [][NextSignup]_vars

\* a deployment some time after its start: a Consumer has signed up, both
\* users have logged in at instant 0 and hold their tokens, and the process
\* has been restarted since (JWT_SECRET is a literal: the tokens still verify)
DeployedUsers ==
    Append(SeedUsers,
           [UserID |-> 2, Email |-> <<"a">>, PasswordHash |-> StoredPassword(<<"p">>), Role |-> "Consumer"])

InitDeployed ==
    /\ variant \in {1, 2, 3}
    /\ columnCI \in (IF variant = 2 THEN BOOLEAN ELSE {TRUE})
    /\ now = 0
    /\ pool = NoPool
    /\ connectCalls = 0
    /\ established = 0
    /\ Users = DeployedUsers
    /\ Videos = <<>>
    /\ Ratings = <<>>
    /\ Comments = <<>>
    /\ blobs = <<>>
    /\ reqs = [r \in Slots |-> Idle]
    /\ held = { jwtSign(DeployedUsers[i].UserID, DeployedUsers[i].Role, JWT_SECRET, 0) : i \in 1..2 }

\* signup and login, one request at a time
NextLogin ==
    \/ PostSignup(1)
    \/ PostLogin(1)
    \/ getPool(1)
    \/ connectSettles(1)
    \/ signupSelect(1)
    \/ signupInsert(1)
    \/ loginSelect(1)
    \/ Close(1)

SpecLogin == Init /\ [][NextLogin]_vars

\* logins and guarded requests as time passes, one request at a time
NextToken ==
    \/ PostLogin(1)
    \/ PostRateWith(1, Headers, {1}, {5})
    \/ getPool(1)
    \/ connectSettles(1)
    \/ loginSelect(1)
    \/ rateInsert(1)
    \/ Close(1)
    \/ Tick

SpecToken == Init /\ [][NextToken]_vars

\* the two guarded routes, auth("Creator") and auth(), one request at a time
NextGuard ==
    \/ PostUploadWith(1, Headers, {"a.mp4"}, {"eA=="})
    \/ PostRateWith(1, Headers, {1}, {5})
    \/ getPool(1)
    \/ connectSettles(1)
    \/ uploadBlobWrite(1)
    \/ uploadInsert(1)
    \/ rateInsert(1)
    \/ Close(1)
    \/ Tick

SpecGuard == InitDeployed /\ [][NextGuard]_vars

\* concurrent uploads by Creators
NextUpload ==
    \E r \in Slots :
        \/ PostUploadWith(r, CreatorHeaders, FileNames, {"eA=="})
        \/ getPool(r)
        \/ connectSettles(r)
        \/ uploadBlobWrite(r)
        \/ uploadInsert(r)
        \/ Close(r)

SpecUpload == InitDeployed /\ [][NextUpload]_vars

\* ratings and their aggregation, one request at a time
NextRatings ==
    \/ PostRate(1)
    \/ GetRatings(1)
    \/ getPool(1)
    \/ connectSettles(1)
    \/ rateInsert(1)
    \/ getRatingsQuery(1)
    \/ Close(1)

SpecRatings == InitDeployed /\ [][NextRatings]_vars

\* the three routes that write rows behind the guard, one request at a time,
\* as time passes
NextAuthor ==
    \/ PostUploadWith(1, Headers, {"a.mp4"}, {"eA=="})
    \/ PostCommentWith(1, Headers, {1}, CommentTexts, BodyUserIds)
    \/ PostRateWith(1, Headers, {1}, {5})
    \/ getPool(1)
    \/ connectSettles(1)
    \/ uploadBlobWrite(1)
    \/ uploadInsert(1)
    \/ commentInsert(1)
    \/ rateInsert(1)
    \/ Close(1)
    \/ Tick

SpecAuthor == InitDeployed /\ [][NextAuthor]_vars

\* uploads by Creators, one request at a time, of either content under
\* either name
NextMedia ==
    \/ PostUploadWith(1, CreatorHeaders, FileNames, FileContents)
    \/ getPool(1)
    \/ connectSettles(1)
    \/ uploadBlobWrite(1)
    \/ uploadInsert(1)
    \/ Close(1)

SpecMedia == InitDeployed /\ [][NextMedia]_vars

-----------------------------------------------------------------------------
(* Properties *)

Hour == 1000 * expiresIn

\* a request that went through the guard carrying a token signed with JWT_SECRET
CarriesIssued(req) ==
    /\ req.kind \in {"upload", "rate"}
    /\ Len(req.header) >= 2
    /\ "key" \in DOMAIN req.header[2]
    /\ req.header[2].key = JWT_SECRET

RequiredRole(req) == IF req.kind = "upload" THEN "Creator" ELSE ""

\* C1: the Users table never holds two rows whose emails are equal ignoring
\* case (every signup after the first with an email is refused and adds no row).
C1_SignupUnique ==
    \A i, j \in 1..Len(Users) :
        i # j => ~EqCI(Users[i].Email, Users[j].Email)

\* C2: a login that the database answers returns a token and role (200) if
\* and only if a user with that email, ignoring case, exists whose stored
\* representation is that of the submitted password; every failure is a 401.
C2_LoginCorrect ==
    [][\A r \in Slots :
          (At(r, "login", "select") /\ reqs'[r].pc = "done" /\ reqs'[r].status # 500) =>
             LET b == reqs[r].body
                 ok == \E i \in 1..Len(Users) :
                          /\ EqCI(Users[i].Email, b.email)
                          /\ Users[i].PasswordHash = StoredPassword(b.password)
             IN /\ (reqs'[r].status = 200) <=> ok
                /\ reqs'[r].status # 200 => reqs'[r].status = 401]_vars

\* C3: a guarded request without a header, or whose token was not issued by
\* the server or has expired, is answered 401 and its handler is not called;
\* one with a valid token of another role than the required one is answered
\* 403 and its handler is not called; any other has its handler called once,
\* with req.user the token's identity and role.
C3_GuardOutcomes ==
    \A r \in Slots :
        (reqs[r] # Idle /\ reqs[r].kind \in {"upload", "rate"}) =>
            LET req == reqs[r]
                tk == req.header[2]
                valid == CarriesIssued(req) /\ tk \in held /\ req.at < 1000 * tk.exp
            IN IF ~valid
               THEN req.calls = 0 /\ req.status = 401 /\ req.pc = "done"
               ELSE IF RequiredRole(req) # "" /\ tk.role # RequiredRole(req)
                    THEN req.calls = 0 /\ req.status = 403 /\ req.pc = "done"
                    ELSE /\ req.calls = 1
                         /\ req.user = [id |-> tk.id, role |-> tk.role]
                         /\ req.status \notin {401, 403}

\* a Consumer's valid token on POST /upload was answered 403
C3_Witness ==
    /\ reqs[1] # Idle
    /\ reqs[1].kind = "upload"
    /\ CarriesIssued(reqs[1])
    /\ reqs[1].header[2].role = "Consumer"
    /\ reqs[1].status = 403

\* C4: once an upload request has completed, no blob written by it exists
\* without a Video row referencing it.
C4_NoOrphanBlob ==
    \A r \in Slots :
        (Done(r) /\ reqs[r].kind = "upload" /\ reqs[r].body.url # <<>> /\ BlobExists(reqs[r].body.url)) =>
            \E i \in 1..Len(Videos) : Videos[i].BlobURL = reqs[r].body.url

\* C5: an upload handler is past its blob write only when the write succeeded
\* (the blob exists and the handler holds its locator); a row enters Videos
\* only by the INSERT of such a handler; and a handler whose blob write
\* failed ends with 500, Videos unchanged.
C5_BlobBeforeRow ==
    /\ [](\A r \in Slots :
            (reqs[r] # Idle /\ reqs[r].kind = "upload" /\ reqs[r].pc \in {"getPool", "connect", "insert"}) =>
                /\ reqs[r].body.url = BlobUrl(reqs[r].body.fileName)
                /\ BlobExists(reqs[r].body.url))
    /\ [][Videos' # Videos =>
            \E r \in Slots :
                /\ At(r, "upload", "insert")
                /\ BlobExists(reqs[r].body.url)
                /\ Len(Videos') = Len(Videos) + 1]_vars
    /\ [][\A r \in Slots :
            (At(r, "upload", "blobWrite") /\ reqs'[r] # reqs[r] /\ reqs'[r].body.url = <<>>) =>
                /\ reqs'[r].pc = "done"
                /\ reqs'[r].status = 500
                /\ Videos' = Videos]_vars

\* a blob write has failed: the request ended with 500 and no locator
C5_Witness ==
    \E r \in Slots :
        /\ Done(r)
        /\ reqs[r].kind = "upload"
        /\ reqs[r].calls = 1
        /\ reqs[r].status = 500
        /\ reqs[r].body.url = <<>>
        /\ Len(Videos) = 1

\* C6: every Video row's BlobURL is the locator of a blob that exists; the
\* row an upload inserts holds the locator of the blob that upload wrote,
\* which is the url of its 200 response.
C6_RowLinksBlob ==
    /\ [](\A i \in 1..Len(Videos) : BlobExists(Videos[i].BlobURL))
    /\ [](\A r \in Slots :
            (Done(r) /\ reqs[r].kind = "upload" /\ reqs[r].status = 200) =>
                /\ reqs[r].resp.url = BlobUrl(reqs[r].body.fileName)
                /\ \E i \in 1..Len(Videos) : Videos[i].BlobURL = reqs[r].resp.url)
    /\ [][Videos' # Videos =>
            \E r \in Slots :
                /\ At(r, "upload", "insert")
                /\ Videos' = Append(Videos, Videos'[Len(Videos')])
                /\ Videos'[Len(Videos')].BlobURL = BlobUrl(reqs[r].body.fileName)
                /\ reqs'[r].status = 200
                /\ reqs'[r].resp.url = Videos'[Len(Videos')].BlobURL]_vars

\* two uploads have succeeded
C6_Witness ==
    /\ Len(Videos) = 2
    /\ \E r \in Slots : Done(r) /\ reqs[r].kind = "upload" /\ reqs[r].status = 200

\* C7 as stated, its last instant left out: a token issued at instant t is
\* accepted by the guard before t + 1 hour and answered 401 after it.
C7_OneHour ==
    \A r \in Slots :
        (reqs[r] # Idle /\ CarriesIssued(reqs[r])) =>
            LET req == reqs[r]
                tk == req.header[2]
            IN /\ req.at < tk.t + Hour => req.calls = 1
               /\ req.at > tk.t + Hour => req.status = 401

\* C7 as amended: a token issued at instant t is accepted by the guard at
\* every instant whose whole second is less than 3600 past the whole second
\* of t, and answered 401 at every later instant; no operation changes that.
C7_Lifetime ==
    \A r \in Slots :
        (reqs[r] # Idle /\ CarriesIssued(reqs[r])) =>
            LET req == reqs[r]
                tk == req.header[2]
            IN IF (req.at \div 1000) < (tk.t \div 1000) + expiresIn
               THEN req.calls = 1 /\ req.status \notin {401, 403}
               ELSE req.calls = 0 /\ req.status = 401

\* a token issued at 600 ms was refused at 3,600,000 ms, before its hour was over
C7_Witness ==
    /\ reqs[1] # Idle
    /\ CarriesIssued(reqs[1])
    /\ reqs[1].header[2].t = 600
    /\ reqs[1].at = Hour
    /\ reqs[1].status = 401

\* C8: no step changes or removes a row of Users; every row a step adds has
\* role Consumer; every token issued carries the id and the role of a row.
C8_Roles ==
    /\ [][/\ Len(Users') >= Len(Users)
          /\ \A i \in 1..Len(Users) : Users'[i] = Users[i]
          /\ \A i \in (Len(Users) + 1)..Len(Users') : Users'[i].Role = "Consumer"]_vars
    /\ [](\A tk \in held \cup { reqs[r].resp.token :
                                 r \in { q \in Slots : Done(q) /\ reqs[q].kind = "login" /\ reqs[q].status = 200 } } :
            \E i \in 1..Len(Users) : Users[i].UserID = tk.id /\ Users[i].Role = tk.role)

\* a user who signed up has logged in and holds a Consumer token, and the
\* provisioned Creator holds a Creator token
C8_Witness ==
    /\ Len(Users) > 1
    /\ \E tk \in held : tk.id > 1 /\ tk.role = "Consumer"
    /\ \E tk \in held : tk.id = 1 /\ tk.role = "Creator"

\* C9: getRatings answers totalRatings = the number of Rating rows of the
\* video and, when there are any, avgRating = their arithmetic mean.
C9_Mean ==
    [][\A r \in Slots :
          (At(r, "getRatings", "query") /\ reqs'[r].status = 200) =>
             LET xs == RatingsOf(Ratings, reqs[r].body.videoId)
                 resp == reqs'[r].resp
             IN /\ resp.TotalRatings = Len(xs)
                /\ xs # <<>> =>
                      /\ Len(resp.AvgRating) = 1
                      /\ resp.AvgRating[1] * Len(xs) = Sum(xs)]_vars

\* C10: the process establishes its connection at most once.
C10_ConnectOnce == established <= 1

\* a request that carried, on arrival, a token signed with JWT_SECRET whose
\* expiry had not been reached
CarriedValid(req) ==
    /\ Len(req.header) >= 2
    /\ "key" \in DOMAIN req.header[2]
    /\ req.header[2].key = JWT_SECRET
    /\ req.at < 1000 * req.header[2].exp

\* C11: a row enters Videos only by the INSERT of a request that carried a
\* valid, unexpired token of role Creator, with CreatorID the token's id; a
\* row enters Comments or Ratings only by the INSERT of a request that
\* carried a valid, unexpired token, with UserID the token's id; the writing
\* request is answered 200, and a request answered 401 or 403 never had its
\* handler called.
C11_Authorship ==
    /\ [][Videos' # Videos =>
            \E r \in Slots :
                /\ At(r, "upload", "insert")
                /\ CarriedValid(reqs[r])
                /\ reqs[r].header[2].role = "Creator"
                /\ Videos' = Append(Videos, Videos'[Len(Videos')])
                /\ Videos'[Len(Videos')].CreatorID = reqs[r].header[2].id
                /\ reqs'[r].status = 200]_vars
    /\ [][Comments' # Comments =>
            \E r \in Slots :
                /\ At(r, "comment", "insert")
                /\ CarriedValid(reqs[r])
                /\ Comments' = Append(Comments, Comments'[Len(Comments')])
                /\ Comments'[Len(Comments')].UserID = reqs[r].header[2].id
                /\ reqs'[r].status = 200]_vars
    /\ [][Ratings' # Ratings =>
            \E r \in Slots :
                /\ At(r, "rate", "insert")
                /\ CarriedValid(reqs[r])
                /\ Ratings' = Append(Ratings, Ratings'[Len(Ratings')])
                /\ Ratings'[Len(Ratings')].UserID = reqs[r].header[2].id
                /\ reqs'[r].status = 200]_vars
    /\ [](\A r \in Slots :
            (reqs[r] # Idle /\ reqs[r].status \in {401, 403}) =>
                reqs[r].pc = "done" /\ reqs[r].calls = 0)
    /\ [][\A r \in Slots :
            (reqs[r] # Idle /\ reqs[r].status \in {401, 403} /\ reqs'[r] # reqs[r]) =>
                /\ reqs'[r] = Idle
                /\ <<Videos', Comments', Ratings', blobs'>> = <<Videos, Comments, Ratings, blobs>>]_vars

\* the Creator has uploaded, the Consumer has commented with the Creator's id
\* in the body, a rating is stored, and the Consumer's upload was answered 403
C11_Witness ==
    /\ Len(Videos) = 1
    /\ Videos[1].CreatorID = 1
    /\ \E i \in 1..Len(Comments) : Comments[i].UserID = 2
    /\ Len(Ratings) >= 1
    /\ reqs[1] # Idle
    /\ reqs[1].kind = "upload"
    /\ CarriedValid(reqs[1])
    /\ reqs[1].header[2].role = "Consumer"
    /\ reqs[1].body.fileName = "a.mp4"
    /\ reqs[1].status = 403

\* C12: no step changes the bytes that the BlobURL of an existing Video row
\* resolves to, and the row an upload inserts resolves to the bytes that
\* upload submitted.
C12_StableMedia ==
    [][/\ \A i \in 1..Len(Videos) :
             blobs'[BlobAt(Videos[i].BlobURL)] = blobs[BlobAt(Videos[i].BlobURL)]
       /\ \A r \in Slots :
             (At(r, "upload", "insert") /\ Videos' # Videos) =>
                 blobs'[BlobAt(Videos'[Len(Videos')].BlobURL)] = Base64Decode(reqs[r].body.fileContent)]_vars

=============================================================================
